---- MODULE Spec2Model ----
(***************************************************************************)
(* Model of man_help (src/src/main.rs): the process supervisor             *)
(* run_with_timeout, the two-phase help acquisition fetch_raw_help, the    *)
(* regex scan of fetch_flags and the selection state of App.               *)
(*                                                                         *)
(* Texts are sequences of characters, each a string.  An absent            *)
(* Option<String> (None) is the empty sequence: the regex never captures   *)
(* an empty short or long token, so the empty sequence is free to stand    *)
(* for None.                                                               *)
(***************************************************************************)
EXTENDS Integers, Sequences, FiniteSets, TLC

(***************************************************************************)
(* Bounds of the model.                                                    *)
(***************************************************************************)
\* longest text of the exhaustive text enumeration
MaxTextLen == 6
\* capacity of an OS pipe, in characters (the child blocks on a write to a full pipe)
PipeCap == 48
\* by how many ms one sleep of the poll loop may overshoot sleep_step
MaxOvershoot == 1
\* how many sleeps of one run may overshoot
MaxLateSleeps == 1

(***************************************************************************)
(* Constants of the program (times in ms).                                 *)
(***************************************************************************)
sleep_step  == 50
HelpTimeout == 1000
ManTimeout  == 2000

(***************************************************************************)
(* Characters and character classes of the regex of fetch_flags.           *)
(***************************************************************************)
Lower == {"a","b","c","d","e","f","g","h","i","j","k","l","m",
          "n","o","p","q","r","s","t","u","v","w","x","y","z"}
Upper == {"A","B","C","D","E","F","G","H","I","J","K","L","M",
          "N","O","P","Q","R","S","T","U","V","W","X","Y","Z"}
Digit == {"0","1","2","3","4","5","6","7","8","9"}

\* \s
IsSpace(c) == c \in {" ", "\n", "\t", "\r"}
\* [a-zA-Z0-9?]
IsShortCh(c) == c \in Lower \cup Upper \cup Digit \cup {"?"}
\* [a-zA-Z0-9\-_]
IsLongCh(c) == c \in Lower \cup Upper \cup Digit \cup {"-", "_"}
\* . (any character but the line feed)
IsDot(c) == c # "\n"

\* Characters outside ASCII are written by their code point: two Cyrillic letters of
\* a localized help text, and U+FFFD, which from_utf8_lossy puts for an invalid byte
\* (written 0xFF).
Cyrillic == {"U+0432", "U+044B"}

\* str::len counts bytes, not characters
ByteLen(c) == IF c \in Cyrillic THEN 2 ELSE IF c = "U+FFFD" THEN 3 ELSE 1

RECURSIVE StrLen(_)
StrLen(s) == IF s = <<>> THEN 0 ELSE ByteLen(Head(s)) + StrLen(Tail(s))

\* s[a..b], empty when b < a
Slice(s, a, b) == SubSeq(s, a, b)

\* str::starts_with
StartsWith(s, pre) == Len(s) >= Len(pre) /\ SubSeq(s, 1, Len(pre)) = pre

\* str::trim: strip the leading and the trailing whitespace
Trim(s) ==
  LET nonws == {i \in 1..Len(s) : ~IsSpace(s[i])}
  IN  IF nonws = {} THEN <<>>
      ELSE LET lo == CHOOSE i \in nonws : \A j \in nonws : i <= j
               hi == CHOOSE i \in nonws : \A j \in nonws : i >= j
           IN  SubSeq(s, lo, hi)

\* number of occurrences of the two-character pattern pat in t (str::matches(pat).count();
\* occurrences of " -" or "\n-" cannot overlap)
CountMatches(t, pat) ==
  Cardinality({i \in 1..(Len(t) - 1) : t[i] = pat[1] /\ t[i+1] = pat[2]})

(***************************************************************************)
(* The regex of fetch_flags, leftmost-first as the regex crate matches it: *)
(*  (?m)^\s+(?:(?P<short>-[a-zA-Z0-9?])(?:,?\s+(?P<long>--[a-zA-Z0-9\-_]+))?*)
(*          |(?P<long_only>--[a-zA-Z0-9\-_]+))\s+(?P<desc>.+)$              *)
(* Positions are 1-based; position Len(t)+1 is the end of the text.        *)
(***************************************************************************)
NoMatch == [ok |-> FALSE, short |-> <<>>, long |-> <<>>, desc |-> <<>>, end |-> 0]

\* (?m)^ : the start of the text or the position after a line feed
LineStart(t, p) == p = 1 \/ (p - 1 <= Len(t) /\ t[p-1] = "\n")

\* end of the maximal run of \s starting at i (the first position not in the run)
WsEnd(t, i) ==
  CHOOSE j \in i..(Len(t) + 1) :
    /\ \A k \in i..(j-1) : IsSpace(t[k])
    /\ (j = Len(t) + 1 \/ ~IsSpace(t[j]))

\* end of the maximal run of [a-zA-Z0-9\-_] starting at i
LongEnd(t, i) ==
  CHOOSE j \in i..(Len(t) + 1) :
    /\ \A k \in i..(j-1) : IsLongCh(t[k])
    /\ (j = Len(t) + 1 \/ ~IsLongCh(t[j]))

\* (?m)$ reached by the greedy .+ from i: the next line feed or the end of the text
LineEnd(t, i) ==
  CHOOSE j \in i..(Len(t) + 1) :
    /\ \A k \in i..(j-1) : IsDot(t[k])
    /\ (j = Len(t) + 1 \/ ~IsDot(t[j]))

\* \s+(?P<desc>.+)$ from position i. \s+ is greedy and may run over line feeds; it
\* gives characters back until .+ finds a character that is not a line feed.
DescAt(t, i) ==
  LET w     == WsEnd(t, i)
      cands == {k \in (i+1)..w : k <= Len(t) /\ IsDot(t[k])}
  IN  IF i > Len(t) \/ cands = {} THEN [ok |-> FALSE, desc |-> <<>>, end |-> 0]
      ELSE LET k == CHOOSE c \in cands : \A d \in cands : c >= d
               e == LineEnd(t, k)
           IN  [ok |-> TRUE, desc |-> Slice(t, k, e - 1), end |-> e]

\* (?:,?\s+(?P<long>--[a-zA-Z0-9\-_]+)) from position r, then the description
LongGroupAt(t, r) ==
  LET c  == IF r <= Len(t) /\ t[r] = "," THEN r + 1 ELSE r
      w  == IF c <= Len(t) THEN WsEnd(t, c) ELSE c
      le == IF w + 2 <= Len(t) + 1 THEN LongEnd(t, w + 2) ELSE w + 2
  IN  IF /\ w > c
         /\ w + 2 <= Len(t)
         /\ t[w] = "-" /\ t[w+1] = "-"
         /\ le > w + 2
      THEN LET d == DescAt(t, le)
           IN  IF d.ok
               THEN [ok |-> TRUE, long |-> Slice(t, w, le - 1), desc |-> d.desc, end |-> d.end]
               ELSE [ok |-> FALSE, long |-> <<>>, desc |-> <<>>, end |-> 0]
      ELSE [ok |-> FALSE, long |-> <<>>, desc |-> <<>>, end |-> 0]

\* the whole pattern anchored at position p
MatchAt(t, p) ==
  IF ~(p <= Len(t) /\ LineStart(t, p)) THEN NoMatch
  ELSE
    LET q == WsEnd(t, p)
    IN  IF ~(q > p /\ q + 1 <= Len(t) /\ t[q] = "-") THEN NoMatch
        ELSE IF IsShortCh(t[q+1])
        THEN \* first alternative: short, then the optional long group (tried first)
             LET g == LongGroupAt(t, q + 2)
                 d == DescAt(t, q + 2)
             IN  IF g.ok
                 THEN [ok |-> TRUE, short |-> Slice(t, q, q + 1), long |-> g.long,
                       desc |-> g.desc, end |-> g.end]
                 ELSE IF d.ok
                 THEN [ok |-> TRUE, short |-> Slice(t, q, q + 1), long |-> <<>>,
                       desc |-> d.desc, end |-> d.end]
                 ELSE NoMatch
        ELSE IF t[q+1] = "-"
        THEN \* second alternative: long_only
             LET le == LongEnd(t, q + 2)
                 d  == DescAt(t, le)
             IN  IF le > q + 2 /\ d.ok
                 THEN [ok |-> TRUE, short |-> <<>>, long |-> Slice(t, q, le - 1),
                       desc |-> d.desc, end |-> d.end]
                 ELSE NoMatch
        ELSE NoMatch

\* Regex::captures_iter: the successive non-overlapping leftmost matches from pos
RECURSIVE CapturesIter(_, _)
CapturesIter(t, pos) ==
  LET starts == {p \in pos..Len(t) : MatchAt(t, p).ok}
  IN  IF starts = {} THEN <<>>
      ELSE LET p == CHOOSE s \in starts : \A s2 \in starts : s <= s2
               m == MatchAt(t, p)
           IN  <<m>> \o CapturesIter(t, m.end)

(***************************************************************************)
(* Flag, and the scan of fetch_flags over an acquired text.                *)
(***************************************************************************)
\* the two option fields stored in each other's place
Flag_Swapped(short, long, desc, selected) ==
  [short |-> long, long |-> short, desc |-> desc, selected |-> selected]

\* Flag { short, long, desc, selected }
Flag(short, long, desc, selected) ==
  [short |-> short, long |-> long, desc |-> desc, selected |-> selected]

\* Flag::as_arg: long if present, else short, else the empty string
as_arg(f) == IF f.long # <<>> THEN f.long ELSE f.short

\* the body of the loop over the captures: <<flag>> when the capture is pushed, <<>>
\* when the loop continues without pushing
FlagOfCapture(cap) ==
  LET short == cap.short
      long  == cap.long
      desc  == Trim(cap.desc)
  IN  IF short # <<>> \/ long # <<>>
      THEN IF short # <<>> /\ ~StartsWith(short, <<"-">>) THEN <<>>
           ELSE IF long # <<>> /\ ~StartsWith(long, <<"-", "-">>) THEN <<>>
           ELSE IF StrLen(desc) < 2 THEN <<>>
           ELSE <<Flag(short, long, desc, FALSE)>>
      ELSE <<>>

RECURSIVE PushFlags(_)
PushFlags(caps) ==
  IF caps = <<>> THEN <<>> ELSE FlagOfCapture(Head(caps)) \o PushFlags(Tail(caps))

\* the flags vector after the loop
ScanFlags(text) == PushFlags(CapturesIter(text, 1))

\* results: Ok(value) or one of the errors
OkText(t)   == [kind |-> "Ok", text |-> t]
ErrText(e)  == [kind |-> e, text |-> <<>>]
OkFlags(fs) == [kind |-> "Ok", flags |-> fs]
ErrFlags(e) == [kind |-> e, flags |-> <<>>]

\* faulty variant of ExtractFlags: the check for an empty vector is missing
ExtractFlags_NoEmptyCheck(raw) ==
  IF raw.kind # "Ok" THEN ErrFlags(raw.kind) ELSE OkFlags(ScanFlags(raw.text))

\* fetch_flags after fetch_raw_help returned raw: the ? operator, the scan, the
\* check for an empty vector
ExtractFlags(raw) ==
  IF raw.kind # "Ok" THEN ErrFlags(raw.kind)
  ELSE LET flags == ScanFlags(raw.text)
       IN  IF flags = <<>> THEN ErrFlags("NoFlagsFound") ELSE OkFlags(flags)

\* faulty variant of HelpAccepted: the two counts are added
HelpAccepted_Sum(text) ==
  CountMatches(text, <<" ", "-">>) + CountMatches(text, <<"\n", "-">>) >= 3

\* the acceptance heuristic of fetch_raw_help for the text of --help
HelpAccepted(text) ==
  CountMatches(text, <<" ", "-">>) >= 3 \/ CountMatches(text, <<"\n", "-">>) >= 3

\* String::from_utf8_lossy: every invalid byte becomes U+FFFD
from_utf8_lossy(bytes) ==
  [i \in 1..Len(bytes) |-> IF bytes[i] = "0xFF" THEN "U+FFFD" ELSE bytes[i]]

VARIABLES
  \* -- App (the selection state) and main
  target_cmd, flags, list_state, should_quit, exit_action, current_lang,
  main_pc, last_op, screen, outcome,
  \* -- fetch_raw_help and run_with_timeout
  acq_pc, acq_lang, runs, help_result, man_result, acq_result,
  sup_pc, cmd, timeout, now, last_over, drift, late, child, out_pipe, err_pipe,
  observed, kill_sent, run_result,
  \* -- the pure functions applied to one text
  text, txt_pc, accepted, extracted

appVars == <<target_cmd, flags, list_state, should_quit, exit_action, current_lang,
             main_pc, last_op, screen, outcome>>
supVars == <<sup_pc, cmd, timeout, now, last_over, drift, late, child, out_pipe, err_pipe,
             observed, kill_sent, run_result>>
acqVars == <<acq_pc, acq_lang, runs, help_result, man_result, acq_result>>
txtVars == <<text, txt_pc, accepted, extracted>>
vars    == <<appVars, acqVars, supVars, txtVars>>

Languages == {"System", "English"}

(***************************************************************************)
(* The texts the child processes of this model print.                      *)
(***************************************************************************)
\* the --help text in the C locale: -v/--ver, --dry, -o
HelpEn ==
  <<" ", "-", "v", ",", " ", "-", "-", "v", "e", "r", " ", "o", "n", "\n", " ", " ",
    " ", " ", " ", "-", "-", "d", "r", "y", " ", "n", "o", "\n", " ", "-", "o", " ",
    " ", "o", "u", "t", "\n">>

\* the --help text in the system locale: the same options in another order, with
\* localized descriptions
HelpSys ==
  <<" ", " ", " ", " ", " ", "-", "-", "d", "r", "y", " ", "U+044B", "U+0432", "\n",
    " ", "-", "v", ",", " ", "-", "-", "v", "e", "r", " ", "U+0432", "U+044B", "\n",
    " ", "-", "o", " ", " ", "U+0432", " ", "U+0432", "\n">>

\* a --help text that lists --ver twice (a common and a specific section)
HelpDup ==
  <<" ", "-", "-", "v", "e", "r", " ", "o", "n", "\n", " ", "-", "-", "v", "e", "r",
    " ", "o", "n", "\n", " ", "-", "o", " ", "u", "p", "\n">>

\* the manual page: -v without its long form, and --dry
ManEn ==
  <<"N", "A", "M", "E", "\n", " ", "-", "v", " ", " ", "o", "n", "\n", " ", "-", "-",
    "d", "r", "y", " ", " ", "n", "o", "\n">>

\* accepted by the heuristic (three space-dash), but no line of it is an option line
NoFlagsText ==
  <<"c", "p", " ", "-", " ", "-", " ", "-", "\n">>

\* two occurrences of space-dash and two of newline-dash: rejected by the heuristic
RejectedHelp ==
  <<"s", "e", "e", " ", "-", "a", " ", "-", "b", "\n", "-", "c", "\n", "-", "d", "\n">>

SampleTexts == {HelpEn, HelpSys, HelpDup, ManEn, NoFlagsText, RejectedHelp}

(***************************************************************************)
(* The child processes the environment may start.  A program is what the   *)
(* child writes to stdout (out) and how much to stderr (err), its exit     *)
(* status (ok) and whether it ever exits on its own (hangs: sl, vim).      *)
(* child.all keeps the whole output of the program, child.out what is      *)
(* still to be written.                                                    *)
(***************************************************************************)
\* an output that does not fit into the pipe
BigOutput == [i \in 1..(PipeCap + 2) |-> IF i % 2 = 1 THEN " " ELSE "-"]
\* an accepted output that is not valid UTF-8
InvalidUtf8 == <<"0xFF">> \o HelpEn

Program(out, err, ok, hangs) == [out |-> out, err |-> err, ok |-> ok, hangs |-> hangs]

ChildPrograms ==
  { Program(t, 0, TRUE, FALSE) : t \in SampleTexts } \cup
  { Program(HelpEn, 1, FALSE, FALSE),
    Program(<<>>, 1, FALSE, FALSE),
    Program(<<>>, 0, TRUE, TRUE),
    Program(BigOutput, 0, TRUE, FALSE),
    Program(<<>>, PipeCap + 2, FALSE, FALSE),
    Program(InvalidUtf8, 0, TRUE, FALSE) }

NoChild == [state |-> "none", all |-> <<>>, out |-> <<>>, err |-> 0, ok |-> FALSE,
            hangs |-> FALSE]
NoResult == ErrText("None")
NoCmd == [prog |-> "", args |-> <<>>, env |-> {}]

Min(a, b) == IF a <= b THEN a ELSE b

(***************************************************************************)
(* run_with_timeout, statement by statement.  sup_pc is the position:      *)
(* "idle" (not called), "spawn", "try_wait", "collect" (wait_with_output), *)
(* "kill", "timeout" (the return after the kill), "sleep", "returned".     *)
(***************************************************************************)
\* the call: the caller passes the command and the timeout
CallRun(c, t) ==
  /\ sup_pc' = "spawn"
  /\ cmd' = c
  /\ timeout' = t
  /\ run_result' = NoResult
  /\ child' = NoChild
  /\ out_pipe' = <<>>
  /\ err_pipe' = 0
  /\ now' = 0
  /\ last_over' = 0
  /\ drift' = 0
  /\ late' = 0
  /\ observed' = "none"
  /\ kill_sent' = FALSE

\* cmd.stdout(piped).stderr(piped).spawn()?, then start = Instant::now()
SupSpawn ==
  /\ sup_pc = "spawn"
  /\ \/ \E prog \in ChildPrograms :
          /\ child' = [state |-> "running", all |-> prog.out, out |-> prog.out,
                       err |-> prog.err, ok |-> prog.ok, hangs |-> prog.hangs]
          /\ sup_pc' = "try_wait"
          /\ UNCHANGED run_result
     \/ \* the spawn fails (no such program): the ? returns the error
        /\ run_result' = ErrText("SpawnError")
        /\ sup_pc' = "returned"
        /\ UNCHANGED child
  /\ UNCHANGED <<cmd, timeout, now, last_over, drift, late, out_pipe, err_pipe,
                 observed, kill_sent>>
  /\ UNCHANGED <<appVars, acqVars, txtVars>>

\* faulty variant of SupTryWait: the elapsed time is tested before the exit status
SupTryWait_TimeoutFirst ==
  /\ sup_pc = "try_wait"
  /\ \/ /\ child.state \in {"exited", "running"}
        /\ observed' = IF child.state = "running" THEN "running"
                        ELSE IF child.ok THEN "exited_ok" ELSE "exited_fail"
        /\ sup_pc' = IF now > timeout THEN "kill"
                      ELSE IF child.state = "running" THEN "sleep" ELSE "collect"
        /\ UNCHANGED run_result
     \/ /\ observed' = "error"
        /\ run_result' = ErrText("IoError")
        /\ sup_pc' = "returned"
  /\ UNCHANGED <<cmd, timeout, now, last_over, drift, late, child, out_pipe, err_pipe,
                 kill_sent>>
  /\ UNCHANGED <<appVars, acqVars, txtVars>>

\* match child.try_wait(), and the timeout test of the Ok(None) arm
SupTryWait ==
  /\ sup_pc = "try_wait"
  /\ \/ \* Ok(Some(status)): the child has exited
        /\ child.state = "exited"
        /\ observed' = IF child.ok THEN "exited_ok" ELSE "exited_fail"
        /\ sup_pc' = "collect"
        /\ UNCHANGED run_result
     \/ \* Ok(None): still running; start.elapsed() > timeout ?
        /\ child.state = "running"
        /\ observed' = "running"
        /\ sup_pc' = IF now > timeout THEN "kill" ELSE "sleep"
        /\ UNCHANGED run_result
     \/ \* Err(e) => return Err(e.into())
        /\ observed' = "error"
        /\ run_result' = ErrText("IoError")
        /\ sup_pc' = "returned"
  /\ UNCHANGED <<cmd, timeout, now, last_over, drift, late, child, out_pipe, err_pipe,
                 kill_sent>>
  /\ UNCHANGED <<appVars, acqVars, txtVars>>

\* faulty variant of SupCollect: the exit status is not looked at
SupCollect_StatusIgnored ==
  /\ sup_pc = "collect"
  /\ run_result' = OkText(from_utf8_lossy(out_pipe))
  /\ out_pipe' = <<>>
  /\ err_pipe' = 0
  /\ child' = [child EXCEPT !.state = "reaped"]
  /\ sup_pc' = "returned"
  /\ UNCHANGED <<cmd, timeout, now, last_over, drift, late, observed, kill_sent>>
  /\ UNCHANGED <<appVars, acqVars, txtVars>>

\* child.wait_with_output()?, then the test of output.status.success()
SupCollect ==
  /\ sup_pc = "collect"
  /\ \/ /\ run_result' = IF child.ok THEN OkText(from_utf8_lossy(out_pipe))
                                      ELSE ErrText("CommandFailed")
        /\ out_pipe' = <<>>
        /\ err_pipe' = 0
        /\ child' = [child EXCEPT !.state = "reaped"]
     \/ \* reading the pipes fails: the ? returns the error
        /\ run_result' = ErrText("IoError")
        /\ UNCHANGED <<out_pipe, err_pipe, child>>
  /\ sup_pc' = "returned"
  /\ UNCHANGED <<cmd, timeout, now, last_over, drift, late, observed, kill_sent>>
  /\ UNCHANGED <<appVars, acqVars, txtVars>>

\* faulty variant of SupKill: the timeout is reported without the kill
SupKill_Skipped ==
  /\ sup_pc = "kill"
  /\ sup_pc' = "timeout"
  /\ UNCHANGED <<cmd, timeout, now, last_over, drift, late, child, out_pipe, err_pipe,
                 observed, kill_sent, run_result>>
  /\ UNCHANGED <<appVars, acqVars, txtVars>>

\* let _ = child.kill(): the signal ends a running child, and does nothing to one
\* that exited since the poll
SupKill ==
  /\ sup_pc = "kill"
  /\ kill_sent' = TRUE
  /\ child' = IF child.state = "running" THEN [child EXCEPT !.state = "killed"] ELSE child
  /\ sup_pc' = "timeout"
  /\ UNCHANGED <<cmd, timeout, now, last_over, drift, late, out_pipe, err_pipe,
                 observed, run_result>>
  /\ UNCHANGED <<appVars, acqVars, txtVars>>

\* return Err(..): the timeout error
SupReturnTimeout ==
  /\ sup_pc = "timeout"
  /\ run_result' = ErrText("Timeout")
  /\ sup_pc' = "returned"
  /\ UNCHANGED <<cmd, timeout, now, last_over, drift, late, child, out_pipe, err_pipe,
                 observed, kill_sent>>
  /\ UNCHANGED <<appVars, acqVars, txtVars>>

\* std::thread::sleep(sleep_step): at least sleep_step passes
SupSleep ==
  /\ sup_pc = "sleep"
  /\ \E d \in 0..MaxOvershoot :
       /\ d > 0 => late < MaxLateSleeps
       /\ now' = now + sleep_step + d
       /\ last_over' = d
       /\ drift' = drift + d
       /\ late' = IF d > 0 THEN late + 1 ELSE late
  /\ sup_pc' = "try_wait"
  /\ UNCHANGED <<cmd, timeout, child, out_pipe, err_pipe, observed, kill_sent, run_result>>
  /\ UNCHANGED <<appVars, acqVars, txtVars>>

\* the child writes to a pipe as much as the pipe takes
ChildWrite ==
  /\ child.state = "running"
  /\ \/ /\ child.out # <<>>
        /\ Len(out_pipe) < PipeCap
        /\ LET k == Min(PipeCap - Len(out_pipe), Len(child.out))
           IN  /\ out_pipe' = out_pipe \o SubSeq(child.out, 1, k)
               /\ child' = [child EXCEPT !.out = SubSeq(child.out, k + 1, Len(child.out))]
        /\ UNCHANGED err_pipe
     \/ /\ child.err > 0
        /\ err_pipe < PipeCap
        /\ LET k == Min(PipeCap - err_pipe, child.err)
           IN  /\ err_pipe' = err_pipe + k
               /\ child' = [child EXCEPT !.err = child.err - k]
        /\ UNCHANGED out_pipe
  /\ UNCHANGED <<sup_pc, cmd, timeout, now, last_over, drift, late, observed, kill_sent,
                 run_result>>
  /\ UNCHANGED <<appVars, acqVars, txtVars>>

\* the child exits on its own, once it has written all its output
ChildExit ==
  /\ child.state = "running"
  /\ ~child.hangs
  /\ child.out = <<>>
  /\ child.err = 0
  /\ child' = [child EXCEPT !.state = "exited"]
  /\ UNCHANGED <<sup_pc, cmd, timeout, now, last_over, drift, late, out_pipe, err_pipe,
                 observed, kill_sent, run_result>>
  /\ UNCHANGED <<appVars, acqVars, txtVars>>

(***************************************************************************)
(* fetch_raw_help: phase 1 (--help), the heuristic, phase 2 (man).         *)
(* acq_pc: "idle", "start", "help" (phase 1 runs), "man" (phase 2 runs),   *)
(* "done".  runs is the log of the calls of run_with_timeout and of their  *)
(* returns.                                                                *)
(***************************************************************************)
help_cmd(cmd_name, lang) ==
  [prog |-> cmd_name, args |-> <<"--help">>,
   env  |-> {<<"COLUMNS", "500">>} \cup
            (IF lang = "English" THEN {<<"LC_ALL", "C">>} ELSE {})]

man_cmd(cmd_name, lang) ==
  [prog |-> "man", args |-> <<cmd_name>>,
   env  |-> {<<"PAGER", "cat">>, <<"MANROFFOPT", "-c">>, <<"GROFF_NO_SGR", "1">>,
             <<"COLUMNS", "500">>} \cup
            (IF lang = "English" THEN {<<"LC_ALL", "C">>} ELSE {})]

CallEvent(c, t) == [ev |-> "call", cmd |-> c, timeout |-> t, kind |-> ""]
ReturnEvent(c, t, r) == [ev |-> "return", cmd |-> c, timeout |-> t, kind |-> r.kind]

\* faulty variant of HelpPhaseWins: every text of --help is taken
HelpPhaseWins_NoHeuristic(r1) == r1.kind = "Ok"

\* if let Ok(text) = run_with_timeout(help_cmd, 1 s) { if <heuristic> { return Ok(text) } }
HelpPhaseWins(r1) == r1.kind = "Ok" /\ HelpAccepted(r1.text)

\* faulty variant of ManPhase: the heuristic is applied to the text of man too
ManPhase_WithHeuristic(r2) ==
  IF r2.kind = "Ok" /\ HelpAccepted(r2.text) THEN OkText(r2.text)
  ELSE ErrText("NoHelpAvailable")

\* if let Ok(text) = run_with_timeout(man_cmd, 2 s) { return Ok(text) }  Err(..)
ManPhase(r2) == IF r2.kind = "Ok" THEN OkText(r2.text) ELSE ErrText("NoHelpAvailable")

\* fetch_raw_help as a function of the results of its two runs (r2 is not looked at
\* when phase 1 wins)
fetch_raw_help(r1, r2) == IF HelpPhaseWins(r1) THEN OkText(r1.text) ELSE ManPhase(r2)

\* fetch_flags as a function of the results of the two runs
fetch_flags(r1, r2) == ExtractFlags(fetch_raw_help(r1, r2))

AcqCallHelp ==
  /\ acq_pc = "start"
  /\ CallRun(help_cmd(target_cmd, acq_lang), HelpTimeout)
  /\ runs' = Append(runs, CallEvent(help_cmd(target_cmd, acq_lang), HelpTimeout))
  /\ acq_pc' = "help"
  /\ UNCHANGED <<acq_lang, help_result, man_result, acq_result>>
  /\ UNCHANGED <<appVars, txtVars>>

AcqAfterHelp ==
  /\ acq_pc = "help"
  /\ sup_pc = "returned"
  /\ help_result' = run_result
  /\ IF HelpPhaseWins(run_result)
     THEN /\ acq_result' = OkText(run_result.text)
          /\ acq_pc' = "done"
          /\ runs' = Append(runs, ReturnEvent(cmd, timeout, run_result))
          /\ sup_pc' = "idle"
          /\ UNCHANGED <<cmd, timeout, now, last_over, drift, late, child, out_pipe,
                         err_pipe, observed, kill_sent, run_result>>
     ELSE /\ CallRun(man_cmd(target_cmd, acq_lang), ManTimeout)
          /\ runs' = runs \o <<ReturnEvent(cmd, timeout, run_result),
                                CallEvent(man_cmd(target_cmd, acq_lang), ManTimeout)>>
          /\ acq_pc' = "man"
          /\ UNCHANGED acq_result
  /\ UNCHANGED <<acq_lang, man_result>>
  /\ UNCHANGED <<appVars, txtVars>>

AcqAfterMan ==
  /\ acq_pc = "man"
  /\ sup_pc = "returned"
  /\ man_result' = run_result
  /\ acq_result' = ManPhase(run_result)
  /\ runs' = Append(runs, ReturnEvent(cmd, timeout, run_result))
  /\ acq_pc' = "done"
  /\ sup_pc' = "idle"
  /\ UNCHANGED <<cmd, timeout, now, last_over, drift, late, child, out_pipe, err_pipe,
                 observed, kill_sent, run_result>>
  /\ UNCHANGED <<acq_lang, help_result>>
  /\ UNCHANGED <<appVars, txtVars>>

(***************************************************************************)
(* Idle values of the three groups of variables.                           *)
(***************************************************************************)
NoneSelected == -1

AppIdle ==
  /\ target_cmd = "cp"
  /\ flags = <<>>
  /\ list_state = NoneSelected
  /\ should_quit = FALSE
  /\ exit_action = "Cancel"
  /\ current_lang = "System"
  /\ main_pc = "idle"
  /\ last_op = [op |-> "none"]
  /\ screen = <<>>
  /\ outcome = [kind |-> "none"]

SupIdle ==
  /\ sup_pc = "idle"
  /\ cmd = NoCmd
  /\ timeout = 0
  /\ now = 0
  /\ last_over = 0
  /\ drift = 0
  /\ late = 0
  /\ child = NoChild
  /\ out_pipe = <<>>
  /\ err_pipe = 0
  /\ observed = "none"
  /\ kill_sent = FALSE
  /\ run_result = NoResult

AcqIdle ==
  /\ acq_pc = "idle"
  /\ acq_lang = "System"
  /\ runs = <<>>
  /\ help_result = NoResult
  /\ man_result = NoResult
  /\ acq_result = NoResult

TxtIdle ==
  /\ text = <<>>
  /\ txt_pc = "idle"
  /\ accepted = FALSE
  /\ extracted = ErrFlags("None")

(***************************************************************************)
(* SpecSup: one call of fetch_raw_help, with its runs of run_with_timeout  *)
(* and the child processes.                                                *)
(***************************************************************************)
InitSup ==
  /\ AppIdle /\ TxtIdle
  /\ acq_pc = "start"
  /\ acq_lang \in Languages
  /\ runs = <<>>
  /\ help_result = NoResult
  /\ man_result = NoResult
  /\ acq_result = NoResult
  /\ SupIdle

NextSup ==
  \/ AcqCallHelp
  \/ SupSpawn
  \/ SupTryWait
  \/ SupCollect
  \/ SupKill
  \/ SupReturnTimeout
  \/ SupSleep
  \/ ChildWrite
  \/ ChildExit
  \/ AcqAfterHelp
  \/ AcqAfterMan

SpecSup == InitSup /\ [][NextSup]_vars

(***************************************************************************)
(* SpecTxt: the acceptance heuristic and the scan of fetch_flags, each     *)
(* applied to every text of up to MaxTextLen characters and to the sample  *)
(* texts.                                                                  *)
(***************************************************************************)
Alphabet == {" ", "\n", "-", "a", ","}

BoundedTexts == UNION {[1..n -> Alphabet] : n \in 0..MaxTextLen}

InitTxt ==
  /\ AppIdle /\ AcqIdle /\ SupIdle
  /\ text \in BoundedTexts \cup SampleTexts
  /\ txt_pc = "input"
  /\ accepted = FALSE
  /\ extracted = ErrFlags("None")

\* the text is the output of --help: the test of the heuristic
TxtHeuristic ==
  /\ txt_pc = "input"
  /\ accepted' = HelpAccepted(text)
  /\ txt_pc' = "checked"
  /\ UNCHANGED <<text, extracted>>
  /\ UNCHANGED <<appVars, acqVars, supVars>>

\* the text is what fetch_raw_help returned: the rest of fetch_flags
TxtExtract ==
  /\ txt_pc = "input"
  /\ extracted' = ExtractFlags(OkText(text))
  /\ txt_pc' = "extracted"
  /\ UNCHANGED <<text, accepted>>
  /\ UNCHANGED <<appVars, acqVars, supVars>>

NextTxt == TxtHeuristic \/ TxtExtract

SpecTxt == InitTxt /\ [][NextTxt]_vars

(***************************************************************************)
(* App: the methods as functions of the fields they read, and the results  *)
(* fetch_flags can have in the environment of this model.                  *)
(***************************************************************************)
\* what run_with_timeout can return
RunErrors == {"Timeout", "CommandFailed", "SpawnError", "IoError"}

\* results of the run of <target> --help: under LC_ALL=C the text is not localized
HelpRuns(lang) ==
  {OkText(t) : t \in {HelpEn, HelpDup, NoFlagsText, RejectedHelp} \cup
                      (IF lang = "System" THEN {HelpSys} ELSE {})} \cup
  {ErrText(e) : e \in RunErrors}

\* results of the run of man <target>
ManRuns(lang) == {OkText(ManEn)} \cup {ErrText(e) : e \in RunErrors}

\* the results of fetch_flags(target, lang)
FetchResults(lang) ==
  {fetch_flags(r1, r2) : r1 \in HelpRuns(lang), r2 \in ManRuns(lang)}

\* faulty variant of next: the cursor stops at the last flag
next_Saturating(fl, sel) ==
  IF fl = <<>> THEN sel
  ELSE IF sel # NoneSelected
       THEN (IF sel >= Len(fl) - 1 THEN Len(fl) - 1 ELSE sel + 1)
       ELSE 0

\* App::next: the new list_state.selected()
next(fl, sel) ==
  IF fl = <<>> THEN sel
  ELSE IF sel # NoneSelected
       THEN (IF sel >= Len(fl) - 1 THEN 0 ELSE sel + 1)
       ELSE 0

\* App::previous: the new list_state.selected()
previous(fl, sel) ==
  IF fl = <<>> THEN sel
  ELSE IF sel # NoneSelected
       THEN (IF sel = 0 THEN Len(fl) - 1 ELSE sel - 1)
       ELSE 0

\* faulty variant of toggle_selection: the flag is selected, never unselected
toggle_selection_SetOnly(fl, sel) ==
  IF sel # NoneSelected /\ sel < Len(fl)
  THEN [fl EXCEPT ![sel + 1].selected = TRUE]
  ELSE fl

\* App::toggle_selection: the new flags (the index i of the code is 0-based)
toggle_selection(fl, sel) ==
  IF sel # NoneSelected /\ sel < Len(fl)
  THEN [fl EXCEPT ![sel + 1].selected = ~fl[sel + 1].selected]
  ELSE fl

RECURSIVE SelectedArgsOf(_)
SelectedArgsOf(fl) ==
  IF fl = <<>> THEN <<>>
  ELSE (IF Head(fl).selected THEN <<as_arg(Head(fl))>> ELSE <<>>)
       \o SelectedArgsOf(Tail(fl))

RECURSIVE AllArgsOf(_)
AllArgsOf(fl) ==
  IF fl = <<>> THEN <<>> ELSE <<as_arg(Head(fl))>> \o AllArgsOf(Tail(fl))

\* faulty variant of get_selected_args: the filter on selected is missing
get_selected_args_Unfiltered(fl) == AllArgsOf(fl)

\* App::get_selected_args
get_selected_args(fl) == SelectedArgsOf(fl)

\* Vec::contains
Contains(v, x) == \E i \in 1..Len(v) : v[i] = x

RECURSIVE Join(_, _)
\* [String]::join(sep)
Join(strs, sep) ==
  IF strs = <<>> THEN <<>>
  ELSE IF Len(strs) = 1 THEN strs[1]
  ELSE strs[1] \o sep \o Join(Tail(strs), sep)

\* App::build_preview_string
build_preview_string(target, fl) ==
  LET args == get_selected_args(fl)
  IN  IF args = <<>> THEN target ELSE target \o <<" ">> \o Join(args, <<" ">>)

\* faulty variant of toggle_language: the language is switched before the fetch
toggle_language_LangFirst(fl, sel, lang, res) ==
  LET new_lang      == IF lang = "System" THEN "English" ELSE "System"
      selected_args == get_selected_args(fl)
  IN  IF res.kind = "Ok"
      THEN LET new_flags ==
                 [i \in 1..Len(res.flags) |->
                    IF Contains(selected_args, as_arg(res.flags[i]))
                    THEN [res.flags[i] EXCEPT !.selected = TRUE]
                    ELSE res.flags[i]]
           IN  [flags |-> new_flags,
                current_lang |-> new_lang,
                list_state |-> IF sel # NoneSelected /\ sel >= Len(new_flags)
                               THEN 0 ELSE sel]
      ELSE [flags |-> fl, current_lang |-> new_lang, list_state |-> sel]

\* faulty variant of toggle_language: the selection is carried over by position
toggle_language_ByPosition(fl, sel, lang, res) ==
  LET new_lang == IF lang = "System" THEN "English" ELSE "System"
  IN  IF res.kind = "Ok"
      THEN LET new_flags ==
                 [i \in 1..Len(res.flags) |->
                    IF i <= Len(fl) /\ fl[i].selected
                    THEN [res.flags[i] EXCEPT !.selected = TRUE]
                    ELSE res.flags[i]]
           IN  [flags |-> new_flags,
                current_lang |-> new_lang,
                list_state |-> IF sel # NoneSelected /\ sel >= Len(new_flags)
                               THEN 0 ELSE sel]
      ELSE [flags |-> fl, current_lang |-> lang, list_state |-> sel]

\* faulty variant of toggle_language: the cursor is not brought back into the list
toggle_language_NoClamp(fl, sel, lang, res) ==
  LET new_lang      == IF lang = "System" THEN "English" ELSE "System"
      selected_args == get_selected_args(fl)
  IN  IF res.kind = "Ok"
      THEN LET new_flags ==
                 [i \in 1..Len(res.flags) |->
                    IF Contains(selected_args, as_arg(res.flags[i]))
                    THEN [res.flags[i] EXCEPT !.selected = TRUE]
                    ELSE res.flags[i]]
           IN  [flags |-> new_flags, current_lang |-> new_lang, list_state |-> sel]
      ELSE [flags |-> fl, current_lang |-> lang, list_state |-> sel]

\* App::toggle_language, given the result res of fetch_flags(target_cmd, new_lang)
toggle_language(fl, sel, lang, res) ==
  LET new_lang      == IF lang = "System" THEN "English" ELSE "System"
      selected_args == get_selected_args(fl)
  IN  IF res.kind = "Ok"
      THEN LET new_flags ==
                 [i \in 1..Len(res.flags) |->
                    IF Contains(selected_args, as_arg(res.flags[i]))
                    THEN [res.flags[i] EXCEPT !.selected = TRUE]
                    ELSE res.flags[i]]
           IN  [flags |-> new_flags,
                current_lang |-> new_lang,
                list_state |-> IF sel # NoneSelected /\ sel >= Len(new_flags)
                               THEN 0 ELSE sel]
      ELSE [flags |-> fl, current_lang |-> lang, list_state |-> sel]

(***************************************************************************)
(* Spec: main, from the first fetch_flags to the end of the program, with  *)
(* the keys of run_app.  main_pc: "start", "loop" (in run_app), "quit"     *)
(* (run_app returned), "done", "exited" (no flags at startup).  last_op is *)
(* the last operation with the state it started from.                      *)
(***************************************************************************)
Snapshot == [flags |-> flags, list_state |-> list_state, current_lang |-> current_lang]
NoSnapshot == [flags |-> <<>>, list_state |-> NoneSelected, current_lang |-> "System"]

Op(name, result) == [op |-> name, pre |-> Snapshot, res |-> result]

Targets == {<<"l", "s">>, <<"c", "p">>}

\* what main does after run_app: the command it launches with its arguments, or the
\* line it prints
Outcome(kind, program, args, line) ==
  [kind |-> kind, program |-> program, args |-> args, line |-> line]
NoOutcome == Outcome("none", <<>>, <<>>, <<>>)

Init ==
  /\ AcqIdle /\ SupIdle /\ TxtIdle
  /\ target_cmd \in Targets
  /\ flags = <<>>
  /\ list_state = NoneSelected
  /\ should_quit = FALSE
  /\ exit_action = "Cancel"
  /\ current_lang = "System"
  /\ main_pc = "start"
  /\ last_op = [op |-> "none", pre |-> NoSnapshot, res |-> ""]
  /\ screen = <<>>
  /\ outcome = NoOutcome

\* main up to run_app: fetch_flags(target, Language::System), then App::new
Startup ==
  /\ main_pc = "start"
  /\ \E res \in FetchResults("System") :
       IF res.kind = "Ok"
       THEN /\ flags' = res.flags
            /\ list_state' = IF res.flags # <<>> THEN 0 ELSE NoneSelected
            /\ main_pc' = "loop"
            /\ last_op' = Op("new", res.kind)
            /\ screen' = build_preview_string(target_cmd, res.flags)
       ELSE /\ main_pc' = "exited"
            /\ last_op' = Op("startup_error", res.kind)
            /\ UNCHANGED <<flags, list_state, screen>>
  /\ UNCHANGED <<target_cmd, should_quit, exit_action, current_lang, outcome>>
  /\ UNCHANGED <<acqVars, supVars, txtVars>>

\* Down | j
KeyNext ==
  /\ main_pc = "loop"
  /\ list_state' = next(flags, list_state)
  /\ last_op' = Op("next", "")
  /\ UNCHANGED <<target_cmd, flags, should_quit, exit_action, current_lang, main_pc,
                 screen, outcome>>
  /\ UNCHANGED <<acqVars, supVars, txtVars>>

\* Up | k
KeyPrevious ==
  /\ main_pc = "loop"
  /\ list_state' = previous(flags, list_state)
  /\ last_op' = Op("previous", "")
  /\ UNCHANGED <<target_cmd, flags, should_quit, exit_action, current_lang, main_pc,
                 screen, outcome>>
  /\ UNCHANGED <<acqVars, supVars, txtVars>>

\* Space
KeyToggle ==
  /\ main_pc = "loop"
  /\ flags' = toggle_selection(flags, list_state)
  /\ last_op' = Op("toggle_selection", "")
  /\ screen' = build_preview_string(target_cmd, flags')
  /\ UNCHANGED <<target_cmd, list_state, should_quit, exit_action, current_lang, main_pc,
                 outcome>>
  /\ UNCHANGED <<acqVars, supVars, txtVars>>

\* l
KeyLanguage ==
  /\ main_pc = "loop"
  /\ \E res \in FetchResults(IF current_lang = "System" THEN "English" ELSE "System") :
       LET post == toggle_language(flags, list_state, current_lang, res)
       IN  /\ flags' = post.flags
           /\ current_lang' = post.current_lang
           /\ list_state' = post.list_state
           /\ last_op' = Op("toggle_language", res.kind)
           /\ screen' = build_preview_string(target_cmd, post.flags)
  /\ UNCHANGED <<target_cmd, should_quit, exit_action, main_pc, outcome>>
  /\ UNCHANGED <<acqVars, supVars, txtVars>>

\* q | Esc, Enter, p: the exit action is set and run_app returns
KeyQuit ==
  /\ main_pc = "loop"
  /\ \E a \in {"Cancel", "Execute", "Print"} :
       /\ exit_action' = a
       /\ last_op' = Op("quit", a)
  /\ should_quit' = TRUE
  /\ main_pc' = "quit"
  /\ UNCHANGED <<target_cmd, flags, list_state, current_lang, screen, outcome>>
  /\ UNCHANGED <<acqVars, supVars, txtVars>>

\* any other key: nothing
KeyOther ==
  /\ main_pc = "loop"
  /\ last_op' = Op("other", "")
  /\ UNCHANGED <<target_cmd, flags, list_state, should_quit, exit_action, current_lang,
                 main_pc, screen, outcome>>
  /\ UNCHANGED <<acqVars, supVars, txtVars>>

\* terminal.draw, event::poll or event::read fails: run_app returns the error, and main
\* returns after the teardown of the terminal without looking at the exit action
UiError ==
  /\ main_pc = "loop"
  /\ main_pc' = "done"
  /\ outcome' = Outcome("ui_error", <<>>, <<>>, <<>>)
  /\ UNCHANGED <<target_cmd, flags, list_state, should_quit, exit_action, current_lang,
                 last_op, screen>>
  /\ UNCHANGED <<acqVars, supVars, txtVars>>

\* disable_raw_mode, LeaveAlternateScreen or show_cursor fails after run_app: main
\* returns the error before it looks at the exit action
TeardownError ==
  /\ main_pc = "quit"
  /\ main_pc' = "done"
  /\ outcome' = Outcome("teardown_error", <<>>, <<>>, <<>>)
  /\ UNCHANGED <<target_cmd, flags, list_state, should_quit, exit_action, current_lang,
                 last_op, screen>>
  /\ UNCHANGED <<acqVars, supVars, txtVars>>

\* faulty variant of MainFinish: the command is launched whatever the exit action
MainFinish_LaunchAlways ==
  /\ main_pc = "quit"
  /\ main_pc' = "done"
  /\ outcome' = Outcome("launch", target_cmd, get_selected_args(flags), <<>>)
  /\ UNCHANGED <<target_cmd, flags, list_state, should_quit, exit_action, current_lang,
                 last_op, screen>>
  /\ UNCHANGED <<acqVars, supVars, txtVars>>

\* main after run_app returned Ok: match app.exit_action
MainFinish ==
  /\ main_pc = "quit"
  /\ main_pc' = "done"
  /\ outcome' =
       CASE exit_action = "Execute" ->
              Outcome("launch", target_cmd, get_selected_args(flags), <<>>)
         [] exit_action = "Print" ->
              Outcome("print", <<>>, <<>>, build_preview_string(target_cmd, flags))
         [] exit_action = "Cancel" ->
              Outcome("cancel", <<>>, <<>>, <<>>)
  /\ UNCHANGED <<target_cmd, flags, list_state, should_quit, exit_action, current_lang,
                 last_op, screen>>
  /\ UNCHANGED <<acqVars, supVars, txtVars>>

Next ==
  \/ Startup
  \/ KeyNext
  \/ KeyPrevious
  \/ KeyToggle
  \/ KeyLanguage
  \/ KeyQuit
  \/ KeyOther
  \/ UiError
  \/ TeardownError
  \/ MainFinish

Spec == Init /\ [][Next]_vars

(***************************************************************************)
(* Properties of the selection state (checked under Spec).                 *)
(***************************************************************************)
SwitchDone   == last_op.op = "toggle_language"
SwitchOk     == SwitchDone /\ last_op.res = "Ok"
SwitchFailed == SwitchDone /\ last_op.res # "Ok"

\* C1: a toggle_language whose fetch_flags failed leaves the flag list (order, fields
\* and selected bits), the cursor and the current language as they were before the call.
C1_SwitchAtomicOnFailure ==
  SwitchFailed =>
    /\ flags = last_op.pre.flags
    /\ list_state = last_op.pre.list_state
    /\ current_lang = last_op.pre.current_lang

C1_Witness ==
  /\ SwitchFailed
  /\ last_op.res \in {"NoHelpAvailable", "NoFlagsFound"}
  /\ list_state > 0
  /\ \E i \in 1..Len(flags) : flags[i].selected

\* C2: after a successful toggle_language a flag of the new list is selected if and
\* only if its canonical argument equals the canonical argument of a flag that was
\* selected just before the switch.
C2_SelectionByCanonicalArg ==
  SwitchOk =>
    \A i \in 1..Len(flags) :
      flags[i].selected <=>
        \E j \in 1..Len(last_op.pre.flags) :
          /\ last_op.pre.flags[j].selected
          /\ as_arg(last_op.pre.flags[j]) = as_arg(flags[i])

\* a selected flag found again at another position, under another description
C2_Witness ==
  /\ SwitchOk
  /\ \E i \in 1..Len(flags) : \E j \in 1..Len(last_op.pre.flags) :
       /\ i # j
       /\ last_op.pre.flags[j].selected
       /\ as_arg(last_op.pre.flags[j]) = as_arg(flags[i])
       /\ last_op.pre.flags[j].desc # flags[i].desc
       /\ flags[i].selected
  /\ \E i \in 1..Len(flags) : ~flags[i].selected

\* C3: after a successful toggle_language the cursor is an index of the new list: the
\* old index if that is smaller than the new length, else 0.
C3_CursorClamped ==
  SwitchOk =>
    /\ list_state >= 0 /\ list_state < Len(flags)
    /\ last_op.pre.list_state < Len(flags) => list_state = last_op.pre.list_state
    /\ last_op.pre.list_state >= Len(flags) => list_state = 0

C3_Witness ==
  /\ SwitchOk
  /\ last_op.pre.list_state > 0
  /\ last_op.pre.list_state >= Len(flags)
  /\ list_state = 0

\* C4: on a list of N >= 1 flags next moves the cursor from i to (i+1) mod N and
\* previous to (i-1) mod N; on an empty list both leave the cursor alone; neither
\* changes the flags, the selected bits or the language.
C4_CursorWraps ==
  LET N == Len(last_op.pre.flags)
      i == last_op.pre.list_state
  IN  /\ last_op.op = "next" /\ N >= 1 => list_state = (i + 1) % N
      /\ last_op.op = "previous" /\ N >= 1 => list_state = (i + N - 1) % N
      /\ last_op.op \in {"next", "previous"} =>
            /\ flags = last_op.pre.flags
            /\ current_lang = last_op.pre.current_lang
      /\ \A sel \in {NoneSelected, 0} :
            next(<<>>, sel) = sel /\ previous(<<>>, sel) = sel

\* next from the last index of a list of at least two flags
C4_Witness ==
  /\ last_op.op = "next"
  /\ Len(flags) >= 2
  /\ last_op.pre.list_state = Len(flags) - 1
  /\ list_state = 0

(***************************************************************************)
(* Properties of run_with_timeout and fetch_raw_help (checked under        *)
(* SpecSup).                                                               *)
(***************************************************************************)
\* occurrences of the two characters a b in t, counted one by one
OccursAt(t, i, a, b) == t[i] = a /\ t[i+1] = b

AtLeast3(t, a, b) ==
  \E i \in 1..(Len(t) - 1) :
    /\ OccursAt(t, i, a, b)
    /\ \E j \in (i+1)..(Len(t) - 1) :
         /\ OccursAt(t, j, a, b)
         /\ \E k \in (j+1)..(Len(t) - 1) : OccursAt(t, k, a, b)

LooksLikeOptions(t) == AtLeast3(t, " ", "-") \/ AtLeast3(t, "\n", "-")

RunReturned == sup_pc = "returned" /\ child.state # "none"

\* C5: a child found running at every poll is killed and the run returns Timeout, at
\* the first poll after the timeout: no later than timeout + sleep_step (+ the
\* overshoot of the last sleep), at exactly timeout + sleep_step when every sleep took
\* exactly sleep_step; the kill comes before the return.
C5_TimeoutKillsInTime ==
  /\ sup_pc = "sleep" => now <= timeout
  /\ sup_pc \in {"kill", "timeout"} => observed = "running" /\ now > timeout
  /\ sup_pc = "timeout" => kill_sent
  /\ run_result.kind = "Timeout" =>
       /\ kill_sent
       /\ child.state \in {"killed", "exited"}
       /\ observed = "running"
       /\ now > timeout
       /\ now <= timeout + sleep_step + last_over
       /\ drift = 0 => now = timeout + sleep_step

C5_Witness ==
  /\ sup_pc = "returned"
  /\ run_result.kind = "Timeout"
  /\ timeout = 1000
  /\ drift = 0
  /\ now = 1050
  /\ child.hangs
  /\ child.state = "killed"

\* C6 as stated: of a spawned child, Ok only after an exit with success, CommandFailed
\* exactly after an exit without success, Timeout only after a poll that found the child
\* running past the timeout, and nothing else.
C6_Original ==
  RunReturned =>
    /\ run_result.kind \in {"Ok", "CommandFailed", "Timeout"}
    /\ run_result.kind = "Ok" => observed = "exited_ok"
    /\ run_result.kind = "CommandFailed" <=> observed = "exited_fail"
    /\ run_result.kind = "Timeout" => observed = "running" /\ now > timeout

\* C6 (amended): besides these three a spawned child has one more outcome, the I/O
\* error of the poll or of the collection of the output, which the run returns as it
\* is; Ok comes only after an exit with success (and is the whole stdout as text),
\* CommandFailed only after an exit without success, and an exit without success gives
\* CommandFailed unless the collection failed; Timeout only after a poll that found the
\* child running past the timeout.
C6_OutcomeMapping ==
  RunReturned =>
    /\ run_result.kind \in {"Ok", "CommandFailed", "Timeout", "IoError"}
    /\ run_result.kind = "Ok" =>
         /\ observed = "exited_ok"
         /\ run_result.text = from_utf8_lossy(child.all)
    /\ run_result.kind = "CommandFailed" => observed = "exited_fail"
    /\ observed = "exited_fail" => run_result.kind \in {"CommandFailed", "IoError"}
    /\ observed = "exited_ok" => run_result.kind \in {"Ok", "IoError"}
    /\ run_result.kind = "Timeout" => observed = "running" /\ now > timeout
    /\ run_result.kind = "IoError" => observed \in {"error", "exited_ok", "exited_fail"}

C6_Witness ==
  /\ RunReturned
  /\ run_result.kind = "IoError"
  /\ observed = "exited_fail"

IsCall(e, prog) == e.ev = "call" /\ e.cmd.prog = prog
Phase1Finished == help_result # NoResult
Phase1Won == help_result.kind = "Ok" /\ LooksLikeOptions(help_result.text)
ManCalled == \E i \in 1..Len(runs) : IsCall(runs[i], "man")

\* C7: the first run is <command> --help with a timeout of 1 s; man is run (with 2 s)
\* if and only if phase 1 has finished and either failed or had its text rejected, and
\* only after the return of the --help run; an accepted --help text is the result,
\* without a run of man.
C7_PhaseOrder ==
  /\ runs # <<>> =>
       /\ IsCall(runs[1], target_cmd)
       /\ runs[1].cmd.args = <<"--help">>
       /\ runs[1].timeout = 1000
  /\ \A i \in 1..Len(runs) :
       IsCall(runs[i], "man") =>
         /\ i = 3
         /\ runs[2].ev = "return" /\ runs[2].cmd.prog = target_cmd
         /\ runs[i].cmd.args = <<target_cmd>>
         /\ runs[i].timeout = 2000
  /\ ManCalled <=> (Phase1Finished /\ ~Phase1Won)
  /\ acq_pc = "done" /\ Phase1Won =>
       /\ acq_result = OkText(help_result.text)
       /\ Len(runs) = 2

C7_Witness ==
  /\ acq_pc = "done"
  /\ help_result.kind = "Ok"
  /\ ~Phase1Won
  /\ ManCalled
  /\ man_result.kind = "Ok"

\* C8: fetch_raw_help fails, with NoHelpAvailable, if and only if phase 1 failed (its
\* run failed or its text was rejected) and the run of man failed; a text of man is
\* returned whatever the heuristic says of it; no error of a single run comes out.
C8_NoHelpIffBothFail ==
  acq_pc = "done" =>
    /\ acq_result.kind \in {"Ok", "NoHelpAvailable"}
    /\ acq_result.kind = "NoHelpAvailable" <=>
         /\ ~Phase1Won
         /\ man_result.kind # "Ok"
    /\ ~Phase1Won /\ man_result.kind = "Ok" => acq_result = OkText(man_result.text)

\* both phases fail, the first by a rejected text, the second by a timeout
C8_Witness ==
  /\ acq_pc = "done"
  /\ acq_result.kind = "NoHelpAvailable"
  /\ help_result.kind = "Ok"
  /\ man_result.kind = "Timeout"

(***************************************************************************)
(* Properties of the heuristic and of the scan (checked under SpecTxt).    *)
(***************************************************************************)
\* C9: the text of --help is accepted if and only if it has at least 3 occurrences of
\* space-dash or at least 3 occurrences of newline-dash; the two counts are not added.
C9_Heuristic ==
  txt_pc = "checked" => (accepted <=> LooksLikeOptions(text))

\* exactly three occurrences of space-dash, none of newline-dash: accepted
C9_Witness ==
  /\ txt_pc = "checked"
  /\ accepted
  /\ Cardinality({i \in 1..(Len(text) - 1) : OccursAt(text, i, " ", "-")}) = 3
  /\ ~\E i \in 1..(Len(text) - 1) : OccursAt(text, i, "\n", "-")

\* the regex matches at p and the loop pushes the flag of that match
AcceptedAt(t, p) == MatchAt(t, p).ok /\ FlagOfCapture(MatchAt(t, p)) # <<>>

\* the empty check of fetch_flags, with the pattern as captures_iter matches it (its
\* whitespace runs over line feeds): the scan fails with NoFlagsFound for every text in
\* which no match is accepted, and never returns Ok with an empty list of flags.
C10_NoFlagsFound ==
  txt_pc = "extracted" =>
    /\ extracted.kind \in {"Ok", "NoFlagsFound"}
    /\ (\A p \in 1..Len(text) : ~AcceptedAt(text, p)) => extracted.kind = "NoFlagsFound"
    /\ extracted.kind = "Ok" => extracted.flags # <<>>

\* a text with an option line whose description is too short: no flag, NoFlagsFound
C10_Witness ==
  /\ txt_pc = "extracted"
  /\ extracted.kind = "NoFlagsFound"
  /\ \E p \in 1..Len(text) : MatchAt(text, p).ok
  /\ \A p \in 1..Len(text) : ~AcceptedAt(text, p)


(***************************************************************************)
(* Properties of the flags the program holds (checked under Spec).         *)
(***************************************************************************)
InLoopOrAfter == main_pc \in {"loop", "quit", "done"}

\* a short option: one dash and one character that is not a dash
SingleDash(s) == Len(s) >= 2 /\ s[1] = "-" /\ s[2] # "-"
\* a long option: two dashes and a name
DoubleDash(s) == Len(s) >= 3 /\ s[1] = "-" /\ s[2] = "-"

\* C11: every Flag the program holds, after startup and after any sequence of
\* next, previous, toggle_selection and toggle_language, has its short or its long
\* option present, so that its canonical argument is never empty; a present short
\* option starts with a single dash and a present long option with a double dash.
C11_FlagsWellFormed ==
  InLoopOrAfter =>
    \A i \in 1..Len(flags) :
      /\ flags[i].short # <<>> \/ flags[i].long # <<>>
      /\ as_arg(flags[i]) # <<>>
      /\ flags[i].short # <<>> => SingleDash(flags[i].short)
      /\ flags[i].long # <<>> => DoubleDash(flags[i].long)

\* after a switch of language and a toggle: a flag with only a short option, one with
\* only a long option and one with both are held
C11_Witness ==
  /\ main_pc = "loop"
  /\ last_op.op = "toggle_selection"
  /\ current_lang = "English"
  /\ \E i, j, k \in 1..Len(flags) :
       /\ flags[i].short # <<>> /\ flags[i].long = <<>>
       /\ flags[j].short = <<>> /\ flags[j].long # <<>>
       /\ flags[k].short # <<>> /\ flags[k].long # <<>>


(***************************************************************************)
(* The scan against the text taken line by line (checked under SpecTxt).   *)
(***************************************************************************)
\* the first line of t (up to the first line feed) and what follows it
FirstLineEnd(t) ==
  CHOOSE j \in 1..(Len(t) + 1) :
    /\ \A k \in 1..(j-1) : t[k] # "\n"
    /\ (j = Len(t) + 1 \/ t[j] = "\n")

RECURSIVE SplitLines(_)
SplitLines(t) ==
  IF t = <<>> THEN <<>>
  ELSE LET j == FirstLineEnd(t)
       IN  <<Slice(t, 1, j - 1)>> \o SplitLines(Slice(t, j + 1, Len(t)))

\* the Flag of one line taken alone: the pattern matched against the line only, so that
\* the option and the description are both on it
LineFlag(line) ==
  IF MatchAt(line, 1).ok THEN FlagOfCapture(MatchAt(line, 1)) ELSE <<>>

RECURSIVE LineFlags(_)
LineFlags(lines) ==
  IF lines = <<>> THEN <<>> ELSE LineFlag(Head(lines)) \o LineFlags(Tail(lines))

\* one Flag for each line that is accepted, in the order of the lines
PerLineFlags(t) == LineFlags(SplitLines(t))

ExtractedFlags == IF extracted.kind = "Ok" THEN extracted.flags ELSE <<>>

\* C12: the scan of fetch_flags yields exactly one Flag for each accepted line, in the
\* order of the lines and with equal canonical arguments kept, each Flag unselected
\* and with the short option, long option and description of its line.
C12_OneFlagPerLine ==
  txt_pc = "extracted" => ExtractedFlags = PerLineFlags(text)


(***************************************************************************)
(* The argument list and the preview (checked under Spec).                 *)
(***************************************************************************)
SelIdx(fl) == {i \in 1..Len(fl) : fl[i].selected}

\* args is the canonical argument of each selected flag of fl, and of no other, in the
\* order of the list
ArgsOfSelected(args, fl) ==
  /\ Len(args) = Cardinality(SelIdx(fl))
  /\ \A i \in SelIdx(fl) :
       args[Cardinality({j \in SelIdx(fl) : j <= i})] = as_arg(fl[i])

\* where the k-th argument starts in the preview, counted from the end of the target
RECURSIVE ArgOffset(_, _, _)
ArgOffset(target, args, k) ==
  IF k = 1 THEN Len(target)
  ELSE ArgOffset(target, args, k - 1) + 1 + Len(args[k-1])

\* line is the target alone when there is no argument, else the target and then, for
\* each argument, one space and the argument
PreviewOf(line, target, args) ==
  IF args = <<>> THEN line = target
  ELSE /\ Len(line) = ArgOffset(target, args, Len(args) + 1)
       /\ SubSeq(line, 1, Len(target)) = target
       /\ \A k \in 1..Len(args) :
            LET o == ArgOffset(target, args, k)
            IN  /\ line[o + 1] = " "
                /\ SubSeq(line, o + 2, o + 1 + Len(args[k])) = args[k]

\* C13: get_selected_args is the sequence of the canonical arguments of exactly the
\* selected flags, in list order; build_preview_string is the target command alone
\* when that sequence is empty and otherwise the target command, one space, and the
\* arguments joined by single spaces (cp with only --dry selected gives "cp --dry").
C13_ArgsAndPreview ==
  LET args == get_selected_args(flags)
  IN  /\ InLoopOrAfter => ArgsOfSelected(args, flags)
      /\ main_pc = "loop" =>
           /\ PreviewOf(screen, target_cmd, args)
           /\ screen = build_preview_string(target_cmd, flags)
           /\ SelIdx(flags) = {} => screen = target_cmd
           /\ ( /\ target_cmd = <<"c", "p">>
                /\ \E i \in 1..Len(flags) :
                     /\ SelIdx(flags) = {i}
                     /\ as_arg(flags[i]) = <<"-", "-", "d", "r", "y">> )
              => screen = <<"c", "p", " ", "-", "-", "d", "r", "y">>
      /\ outcome.kind = "print" => PreviewOf(outcome.line, target_cmd, args)
      /\ outcome.kind = "launch" => ArgsOfSelected(outcome.args, flags)

\* the preview is printed with two flags selected around one that is not
C13_Witness ==
  /\ outcome.kind = "print"
  /\ \E i, j, k \in 1..Len(flags) :
       /\ i < j /\ j < k
       /\ SelIdx(flags) = {i, k}
  /\ Len(outcome.line) > Len(target_cmd)


(***************************************************************************)
(* toggle_selection (checked under Spec).                                  *)
(***************************************************************************)
ToggleDone == main_pc = "loop" /\ last_op.op = "toggle_selection"

\* C14: toggle_selection flips the selected bit of the flag at the cursor and changes
\* nothing else: the cursor, the language, the length and order of the list and every
\* other flag and field stay as they were; with the cursor unset or out of range it
\* changes nothing; applied twice it restores the flags it started from.
C14_ToggleFrame ==
  /\ ToggleDone =>
       LET pre == last_op.pre
       IN  /\ list_state = pre.list_state
           /\ current_lang = pre.current_lang
           /\ should_quit = FALSE /\ exit_action = "Cancel"
           /\ Len(flags) = Len(pre.flags)
           /\ \A k \in 1..Len(flags) :
                IF k = pre.list_state + 1
                THEN /\ flags[k].selected = ~pre.flags[k].selected
                     /\ flags[k].short = pre.flags[k].short
                     /\ flags[k].long = pre.flags[k].long
                     /\ flags[k].desc = pre.flags[k].desc
                ELSE flags[k] = pre.flags[k]
           /\ toggle_selection(flags, list_state) = pre.flags
  /\ InLoopOrAfter =>
       /\ toggle_selection(flags, NoneSelected) = flags
       /\ toggle_selection(flags, Len(flags)) = flags
       /\ toggle_selection(flags, Len(flags) + 1) = flags
       /\ toggle_selection(toggle_selection(flags, list_state), list_state) = flags

\* a selected flag in the middle of the list has been unselected, another one stays
\* selected
C14_Witness ==
  /\ ToggleDone
  /\ list_state = 1
  /\ Len(flags) = 3
  /\ last_op.pre.flags[2].selected /\ ~flags[2].selected
  /\ flags[3].selected



(***************************************************************************)
(* The end of the program (checked under Spec).                            *)
(***************************************************************************)
QuitHandled == should_quit

NothingLaunched == outcome.program = <<>> /\ outcome.args = <<>>

\* C15: the target command is launched only when run_app ended through the Execute
\* action (Enter), with exactly the selected arguments of the state at that moment, in
\* list order; the Print action only prints the preview of that state, the Cancel
\* action launches nothing; once a quit key has been handled no selection, cursor or
\* language operation is applied any more.
C15_ExitActions ==
  /\ QuitHandled <=> (main_pc \in {"quit", "done"} /\ last_op.op = "quit")
  /\ QuitHandled =>
       /\ exit_action = last_op.res
       /\ flags = last_op.pre.flags
       /\ list_state = last_op.pre.list_state
       /\ current_lang = last_op.pre.current_lang
  /\ outcome.kind = "launch" =>
       /\ QuitHandled /\ exit_action = "Execute"
       /\ outcome.program = target_cmd
       /\ ArgsOfSelected(outcome.args, last_op.pre.flags)
  /\ outcome.kind = "print" =>
       /\ QuitHandled /\ exit_action = "Print"
       /\ NothingLaunched
       /\ outcome.line = build_preview_string(target_cmd, last_op.pre.flags)
  /\ outcome.kind = "cancel" =>
       /\ QuitHandled /\ exit_action = "Cancel"
       /\ NothingLaunched
  /\ outcome.kind = "ui_error" => ~QuitHandled /\ NothingLaunched
  /\ outcome.kind = "teardown_error" => NothingLaunched
  /\ main_pc = "done" =>
       outcome.kind \in
         {"teardown_error",
          IF ~QuitHandled THEN "ui_error"
          ELSE CASE exit_action = "Execute" -> "launch"
                 [] exit_action = "Print" -> "print"
                 [] exit_action = "Cancel" -> "cancel"}
  /\ main_pc # "done" => outcome = NoOutcome

\* the command is launched with two arguments, selected in the list of the other
\* language
C15_Witness ==
  /\ main_pc = "done"
  /\ outcome.kind = "launch"
  /\ Len(outcome.args) = 2
  /\ current_lang = "English"
  /\ Len(flags) > 2


\* C10: the scan of fetch_flags fails with NoFlagsFound for every text in which no line
\* is accepted by the flag grammar, and never returns Ok with an empty list of flags.
C10_NoLineAccepted ==
  txt_pc = "extracted" =>
    /\ PerLineFlags(text) = <<>> => extracted.kind = "NoFlagsFound"
    /\ extracted.kind = "Ok" => extracted.flags # <<>>

\* C16: the description of every extracted Flag is taken from the same source line as
\* its option token or tokens, and the option token is preceded by leading whitespace
\* on that same line: every extracted Flag is the Flag of one line of the text taken
\* alone, none has its description from a following line or its token at column 0.
C16_SameLine ==
  txt_pc = "extracted" =>
    \A i \in 1..Len(ExtractedFlags) :
      \E j \in 1..Len(PerLineFlags(text)) : ExtractedFlags[i] = PerLineFlags(text)[j]


(***************************************************************************)
(* The list and the cursor in run_app (checked under Spec).                *)
(***************************************************************************)
\* C17: from the start of run_app on, and after any sequence of next, previous,
\* toggle_selection and toggle_language, succeeding or failing, the flag list is not
\* empty and the cursor is set to an index smaller than its length.
C17_ListAndCursor ==
  InLoopOrAfter =>
    /\ flags # <<>>
    /\ list_state # NoneSelected
    /\ list_state >= 0 /\ list_state < Len(flags)

\* the cursor is on the last flag of a list that a switch made shorter, after a switch
\* that failed
C17_Witness ==
  /\ main_pc = "loop"
  /\ SwitchFailed
  /\ current_lang = "English"
  /\ Len(flags) = 2
  /\ list_state = 1


(***************************************************************************)
(* The order of the tests of a poll (checked under SpecSup).               *)
(***************************************************************************)
ObservedExited == observed \in {"exited_ok", "exited_fail"}

\* C18: in the poll loop of run_with_timeout the exit test comes before the timeout
\* test: a child that a poll observed as exited is never reported as Timeout and never
\* killed, even when the elapsed time is already over the timeout at that poll;
\* Timeout is decided only at a poll that found the child still running.
C18_ExitBeforeTimeout ==
  /\ ObservedExited =>
       /\ ~kill_sent
       /\ sup_pc \in {"collect", "returned", "idle"}
       /\ run_result.kind # "Timeout"
       /\ sup_pc = "returned" => run_result.kind \in {"Ok", "CommandFailed", "IoError"}
  /\ (sup_pc \in {"kill", "timeout"} \/ kill_sent) => observed = "running"
  /\ (sup_pc = "returned" /\ run_result.kind = "Timeout") =>
       observed = "running" /\ now > timeout

\* a child that exited during the last sleep: the poll that finds it exited is already
\* past the timeout, and its output is returned
C18_Witness ==
  /\ sup_pc = "returned"
  /\ observed = "exited_ok"
  /\ now > timeout
  /\ ~kill_sent
  /\ run_result.kind = "Ok"
  /\ run_result.text # <<>>


(***************************************************************************)
(* The pipes between run_with_timeout and the child (checked under         *)
(* SpecSup).                                                               *)
(***************************************************************************)
\* a child that would write the rest of its output and exit with success, but has
\* filled a pipe that nobody reads
StuckOnPipe ==
  /\ child.ok /\ ~child.hangs
  /\ \/ child.out # <<>> /\ Len(out_pipe) >= PipeCap
     \/ child.err > 0 /\ err_pipe >= PipeCap

\* C19: run_with_timeout and the child never block each other on the output pipes: a
\* child that writes any amount of text and then exits with success is not left
\* waiting on a full pipe until the timeout, and run does not answer Timeout for it
\* in place of its complete stdout.
C19_PipesNeverBlock ==
  (sup_pc = "returned" /\ run_result.kind = "Timeout") => ~StuckOnPipe


(***************************************************************************)
(* A switch of language that acquires the same list (checked under Spec).  *)
(***************************************************************************)
\* the same flags in the same order, whatever their selected bits
SameList(a, b) ==
  /\ Len(a) = Len(b)
  /\ \A i \in 1..Len(a) :
       /\ a[i].short = b[i].short
       /\ a[i].long = b[i].long
       /\ a[i].desc = b[i].desc

\* C20: a successful toggle_language whose fetch_flags yields a list identical to the
\* current one, lists in which two lines share a canonical argument included, leaves
\* every selected bit as it was, so that the preview is the same.
C20_SameListSameSelection ==
  (SwitchOk /\ SameList(flags, last_op.pre.flags)) =>
    /\ \A i \in 1..Len(flags) : flags[i].selected = last_op.pre.flags[i].selected
    /\ build_preview_string(target_cmd, flags)
         = build_preview_string(target_cmd, last_op.pre.flags)

====
